---------------------------- MODULE Spec2Model ----------------------------
(***************************************************************************)
(* Verification model of                                                   *)
(*   soundtrigger/2.1/vts/functional/VtsHalSoundtriggerV2_1TargetTest.cpp  *)
(*   automotive/audiocontrol AudioFocusChange.aidl                         *)
(*                                                                         *)
(* Three parts: class Monitor (mutex + condition variable + counter) used  *)
(* by two waiting and two notifying threads, the five test bodies of       *)
(* SoundTriggerHidlTest run against a black-box HAL, and the constants of  *)
(* enum AudioFocusChange.                                                  *)
(***************************************************************************)
EXTENDS Integers, Naturals, Sequences, FiniteSets, TLC

(***************************************************************************)
(* Bounds of the model.                                                    *)
(***************************************************************************)
MaxNotify == 2        \* notify() calls in a run
MaxWaitCalls == 3     \* wait() calls in a run

\* The threads: two that call wait() and two that call notify().  They are
\* named, not counted; the number of calls each kind makes is what is bounded.
Waiters == {1, 2}
Notifiers == {3, 4}

(***************************************************************************)
(* Program constants.                                                      *)
(***************************************************************************)
SHORT_TIMEOUT_PERIOD == 1
AllocSize == 100

VARIABLES
    \* ---- class Monitor
    mCount,         \* Monitor::mCount
    mMtx,           \* Monitor::mMtx: 0 when free, else the id of the owning thread
    pc,             \* position of every thread inside wait() / notify()
    expired,        \* per waiter: system_clock::now() >= deadline of the current call
    ret,            \* per waiter: what its last wait() returned: "none" | "true" | "false"
    \* ---- history of the Monitor calls
    notifyDone,     \* number of notify() calls that returned
    waitTrue,       \* number of wait() calls that returned true
    waitCalls,      \* number of wait() calls started
    posAtCall,      \* per waiter: mCount > 0 at the moment of the call
    notified,       \* per waiter: "no" | "early" (a notify before the deadline) | "late"
    stolen,         \* per waiter: another wait() decremented during this call
    owedTo,         \* threads blocked in wait(), deadline not passed, at the last
                    \* notify(), that have not returned since
    owedState,      \* who returned true since that notify(): "none" (nobody was
                    \* blocked) | "open" (nobody yet) | "member" (one of owedTo) |
                    \* "inside" (a thread that was elsewhere inside wait()) |
                    \* "other" (only calls to wait() made after it)
    \* ---- the test bodies
    test,           \* which TEST_P body runs
    tpc,            \* position of the test thread in the body
    halRet,         \* int ret / Return<int32_t> hidlReturn
    hidlOk,         \* Return<>::isOk()
    failed,         \* an EXPECT_* or ASSERT_* failed
    cbRegistered,   \* mCallback has been handed to the HAL
    cbLog,          \* names of the callbacks delivered so far
    lastModelEvent, \* which of lastModelEvent_2_0 / lastModelEvent was written last
    size,           \* int size of LoadGenericSoundModelFail_2_1
    offset,         \* p - memory->getPointer()
    writes,         \* offsets written by the fill loop
    modelData,      \* what model.data refers to: "empty" | "random"
    \* ---- enum AudioFocusChange
    first, second,  \* two enumerator names
    probe           \* a raw int value

mvars == <<mCount, mMtx, pc, expired, ret, notifyDone, waitTrue, waitCalls,
           posAtCall, notified, stolen, owedTo, owedState>>
tvars == <<test, tpc, halRet, hidlOk, failed, cbRegistered, cbLog, lastModelEvent,
           size, offset, writes, modelData>>
evars == <<first, second, probe>>
vars == <<mvars, tvars, evars>>

(***************************************************************************)
(* class Monitor                                                           *)
(***************************************************************************)

\* Monitor() : mCount(0) {}
MonitorInit ==
    /\ mCount = 0
    /\ mMtx = 0
    /\ pc = [t \in Waiters \cup Notifiers |-> "idle"]
    /\ expired = [w \in Waiters |-> FALSE]
    /\ ret = [w \in Waiters |-> "none"]
    /\ notifyDone = 0
    /\ waitTrue = 0
    /\ waitCalls = 0
    /\ posAtCall = [w \in Waiters |-> FALSE]
    /\ notified = [w \in Waiters |-> "no"]
    /\ stolen = [w \in Waiters |-> FALSE]
    /\ owedTo = {}
    /\ owedState = "none"

InCall(w) == pc[w] \notin {"idle", "done"}

\* the predicate handed to wait_until: [& count = mCount] { return count > 0; }
PredMutNonNeg(count) == count >= 0
Pred(count) == count > 0

\* mCount++ / mCount-- on a C++ int; MaxNotify keeps the value far from INT_MAX
IncMutTwo(count) == count + 2
Inc(count) == count + 1

DecMutTwo(count) == count - 2
Dec(count) == count - 1

\* wait_until(lock, deadline, pred) at the deadline: "return pred();"
AtDeadlineMutFalse(count) == FALSE
AtDeadline(count) == Pred(count)

\* notify_one(): the blocked threads it may wake (one of them, if any)
WakeSet == {w \in Waiters : pc[w] = "blocked"}

\* wait(timeoutSeconds): deadline = now() + seconds(timeoutSeconds)
WaitCall(w, timeoutSeconds) ==
    /\ pc[w] \in {"idle", "done"}
    /\ waitCalls < MaxWaitCalls
    /\ pc' = [pc EXCEPT ![w] = "lock"]
    /\ expired' = [expired EXCEPT ![w] = (timeoutSeconds <= 0)]
    /\ ret' = [ret EXCEPT ![w] = "none"]
    /\ waitCalls' = waitCalls + 1
    /\ posAtCall' = [posAtCall EXCEPT ![w] = (mCount > 0)]
    /\ notified' = [notified EXCEPT ![w] = "no"]
    /\ stolen' = [stolen EXCEPT ![w] = FALSE]
    /\ UNCHANGED <<mCount, mMtx, notifyDone, waitTrue, owedTo, owedState>>

\* std::unique_lock<std::mutex> lock(mMtx);
WaitLock(w) ==
    /\ pc[w] = "lock"
    /\ mMtx = 0
    /\ mMtx' = w
    /\ pc' = [pc EXCEPT ![w] = "pred"]
    /\ UNCHANGED <<mCount, expired, ret, notifyDone, waitTrue, waitCalls,
                   posAtCall, notified, stolen, owedTo, owedState>>

\* mCount--; return true;   (the lock is released by the destructor)
ReturnTrue(w) ==
    /\ mCount' = Dec(mCount)
    /\ mMtx' = 0
    /\ pc' = [pc EXCEPT ![w] = "done"]
    /\ ret' = [ret EXCEPT ![w] = "true"]
    /\ waitTrue' = waitTrue + 1
    /\ stolen' = [v \in Waiters |-> IF v # w /\ InCall(v) THEN TRUE ELSE stolen[v]]
    /\ owedTo' = owedTo \ {w}
    /\ owedState' = IF owedState \in {"none", "member", "inside"} THEN owedState
                    ELSE IF w \in owedTo THEN "member"
                    ELSE IF notified[w] = "no" THEN "other"
                    ELSE "inside"
    /\ UNCHANGED <<expired, notifyDone, waitCalls, posAtCall, notified>>

\* return false;
ReturnFalse(w) ==
    /\ mMtx' = 0
    /\ pc' = [pc EXCEPT ![w] = "done"]
    /\ ret' = [ret EXCEPT ![w] = "false"]
    /\ owedTo' = owedTo \ {w}
    /\ UNCHANGED <<mCount, expired, notifyDone, waitTrue, waitCalls,
                   posAtCall, notified, stolen, owedState>>

\* wait_until releases the lock and blocks on mCv
Block(w) ==
    /\ mMtx' = 0
    /\ pc' = [pc EXCEPT ![w] = "blocked"]
    /\ UNCHANGED <<mCount, expired, ret, notifyDone, waitTrue, waitCalls,
                   posAtCall, notified, stolen, owedTo, owedState>>

\* wait_until(lock, deadline, pred): "while (!pred()) ..." evaluated under the lock
WaitPred(w) ==
    /\ pc[w] = "pred"
    /\ mMtx = w
    /\ IF Pred(mCount) THEN ReturnTrue(w) ELSE Block(w)

\* the clock reaches the deadline of the call
Expire(w) ==
    /\ InCall(w)
    /\ ~expired[w]
    /\ expired' = [expired EXCEPT ![w] = TRUE]
    /\ UNCHANGED <<mCount, mMtx, pc, ret, notifyDone, waitTrue, waitCalls,
                   posAtCall, notified, stolen, owedTo, owedState>>

\* the timed wait on mCv ends because the deadline has been reached
TimeoutMutNever(w) == FALSE /\ UNCHANGED mvars
Timeout(w) ==
    /\ pc[w] = "blocked"
    /\ expired[w]
    /\ pc' = [pc EXCEPT ![w] = "relock"]
    /\ UNCHANGED <<mCount, mMtx, expired, ret, notifyDone, waitTrue, waitCalls,
                   posAtCall, notified, stolen, owedTo, owedState>>

\* a condition variable may wake a thread spuriously
SpuriousWake(w) ==
    /\ pc[w] = "blocked"
    /\ ~expired[w]
    /\ pc' = [pc EXCEPT ![w] = "relock"]
    /\ UNCHANGED <<mCount, mMtx, expired, ret, notifyDone, waitTrue, waitCalls,
                   posAtCall, notified, stolen, owedTo, owedState>>

\* the woken thread takes the mutex again before wait_until goes on
WaitRelock(w) ==
    /\ pc[w] = "relock"
    /\ mMtx = 0
    /\ mMtx' = w
    /\ pc' = [pc EXCEPT ![w] = "woken"]
    /\ UNCHANGED <<mCount, expired, ret, notifyDone, waitTrue, waitCalls,
                   posAtCall, notified, stolen, owedTo, owedState>>

\* after the wake-up: on timeout "return pred();", else the loop tests pred again
WaitWoken(w) ==
    /\ pc[w] = "woken"
    /\ mMtx = w
    /\ IF expired[w]
         THEN IF AtDeadline(mCount) THEN ReturnTrue(w) ELSE ReturnFalse(w)
         ELSE IF Pred(mCount) THEN ReturnTrue(w) ELSE Block(w)

\* notify() is entered
NotifyCall(n) ==
    /\ pc[n] = "idle"
    /\ notifyDone + Cardinality({m \in Notifiers : pc[m] \in {"lock", "crit"}}) < MaxNotify
    /\ pc' = [pc EXCEPT ![n] = "lock"]
    /\ UNCHANGED <<mCount, mMtx, expired, ret, notifyDone, waitTrue, waitCalls,
                   posAtCall, notified, stolen, owedTo, owedState>>

\* std::unique_lock<std::mutex> lock(mMtx);
NotifyLock(n) ==
    /\ pc[n] = "lock"
    /\ mMtx = 0
    /\ mMtx' = n
    /\ pc' = [pc EXCEPT ![n] = "crit"]
    /\ UNCHANGED <<mCount, expired, ret, notifyDone, waitTrue, waitCalls,
                   posAtCall, notified, stolen, owedTo, owedState>>

\* mCount++; mCv.notify_one(); then the lock is released and notify() returns.
\* The three happen under the lock; no other thread can read or write mCount
\* between them.
NotifyBody(n) ==
    /\ pc[n] = "crit"
    /\ mMtx = n
    /\ mCount' = Inc(mCount)
    /\ \/ /\ WakeSet = {}
          /\ pc' = [pc EXCEPT ![n] = "idle"]
       \/ \E w \in WakeSet : pc' = [pc EXCEPT ![n] = "idle", ![w] = "relock"]
    /\ mMtx' = 0
    /\ notifyDone' = notifyDone + 1
    /\ notified' = [w \in Waiters |->
                      IF ~InCall(w) \/ notified[w] = "early" THEN notified[w]
                      ELSE IF expired[w] THEN "late" ELSE "early"]
    /\ owedTo' = {w \in Waiters : pc[w] = "blocked" /\ ~expired[w]}
    /\ owedState' = IF owedTo' = {} THEN "none" ELSE "open"
    /\ UNCHANGED <<expired, ret, waitTrue, waitCalls, posAtCall, stolen>>

WaiterStep(w) ==
    \/ WaitLock(w)
    \/ WaitPred(w)
    \/ Expire(w)
    \/ Timeout(w)
    \/ SpuriousWake(w)
    \/ WaitRelock(w)
    \/ WaitWoken(w)

NotifierStep(n) ==
    \/ NotifyLock(n)
    \/ NotifyBody(n)

(***************************************************************************)
(* The test bodies of SoundTriggerHidlTest.  The HAL is a black box: it    *)
(* returns any status and may deliver any callback once it holds mCallback.*)
(* The gtest thread is waiter 1; binder threads are the notifiers.         *)
(***************************************************************************)
TestThread == 1

LoadTests == {"LoadInvalidModelFail_2_1", "LoadEmptyGenericSoundModelFail",
              "LoadEmptyGenericSoundModelFail_2_1", "LoadGenericSoundModelFail_2_1"}
Tests == LoadTests \cup {"StartRecognitionNoModelFail_2_1"}

\* status codes a HAL may hand back (vendor defined); 0 is success
ENODEV == 19
HalStatuses == {-22, 0, 1}

ModelCallbacks == {"soundModelCallback", "soundModelCallback_2_1"}
OtherCallbacks == {"recognitionCallback", "phraseRecognitionCallback",
                   "recognitionCallback_2_1", "phraseRecognitionCallback_2_1"}

\* the declarations at the top of each body
InitialRet(t) == IF t = "StartRecognitionNoModelFail_2_1" THEN 0 ELSE -ENODEV

TestVarsInit(t) ==
    /\ test = t
    /\ tpc = "setup"
    /\ halRet = InitialRet(t)
    /\ hidlOk = TRUE
    /\ failed = FALSE
    /\ cbRegistered = FALSE
    /\ cbLog = {}
    /\ lastModelEvent = "none"
    /\ size = 0
    /\ offset = 0
    /\ writes = {}
    /\ modelData = "empty"

\* SetUp(): getService, ASSERT_NE(nullptr, ...), new SoundTriggerHwCallback
SetUp ==
    /\ tpc = "setup"
    /\ \E service \in BOOLEAN :
         /\ tpc' = IF service THEN "body" ELSE "end"
         /\ failed' = ~service
    /\ UNCHANGED <<test, halRet, hidlOk, cbRegistered, cbLog, lastModelEvent,
                   size, offset, writes, modelData>>
    /\ UNCHANGED <<mvars, evars>>

\* the model argument is built; only LoadGenericSoundModelFail_2_1 allocates
BuildModel ==
    /\ tpc = "body"
    /\ test # "LoadGenericSoundModelFail_2_1"
    /\ tpc' = "call"
    /\ UNCHANGED <<test, halRet, hidlOk, failed, cbRegistered, cbLog, lastModelEvent,
                   size, offset, writes, modelData>>
    /\ UNCHANGED <<mvars, evars>>

\* int size = 100; ashmem->allocate(size, ...); mapMemory(hmemory); ASSERT_NE(nullptr, ...)
Allocate ==
    /\ tpc = "body"
    /\ test = "LoadGenericSoundModelFail_2_1"
    /\ size' = AllocSize
    /\ offset' = 0
    /\ \E success \in BOOLEAN :
         /\ tpc' = IF success THEN "fill" ELSE "end"
         /\ failed' = ~success
    /\ UNCHANGED <<test, halRet, hidlOk, cbRegistered, cbLog, lastModelEvent,
                   writes, modelData>>
    /\ UNCHANGED <<mvars, evars>>

\* the loop condition of the fill loop
FillCond(sz) == sz >= 0

\* for (uint8_t* p = ...; size >= 0; p++, size--) { *p = rand(); }
\* A store at an offset >= AllocSize is outside the allocation: it either lands in
\* the slack of the page-rounded mapping or faults.
FillStep ==
    /\ tpc = "fill"
    /\ IF FillCond(size)
         THEN /\ writes' = writes \cup {offset}
              /\ offset' = offset + 1
              /\ size' = size - 1
              /\ IF offset >= AllocSize
                   THEN \E fault \in BOOLEAN : tpc' = IF fault THEN "crashed" ELSE "fill"
                   ELSE tpc' = "fill"
         ELSE /\ tpc' = "call"
              /\ UNCHANGED <<writes, offset, size>>
    /\ UNCHANGED <<test, halRet, hidlOk, failed, cbRegistered, cbLog, lastModelEvent,
                   modelData>>
    /\ UNCHANGED <<mvars, evars>>

\* load*SoundModel*(model, mCallback, 0, ...) / startRecognition_2_1(handle, config,
\* mCallback, 0): the HAL now holds mCallback
HalCall ==
    /\ tpc = "call"
    /\ tpc' = "incall"
    /\ cbRegistered' = TRUE
    /\ UNCHANGED <<test, halRet, hidlOk, failed, cbLog, lastModelEvent,
                   size, offset, writes, modelData>>
    /\ UNCHANGED <<mvars, evars>>

\* the call returns: on a transport error the result lambda never ran
HalReturn ==
    /\ tpc = "incall"
    /\ tpc' = "expect"
    /\ \/ /\ hidlOk' = TRUE
          /\ \E retval \in HalStatuses : halRet' = retval
       \/ /\ hidlOk' = FALSE
          /\ UNCHANGED halRet
    /\ UNCHANGED <<test, failed, cbRegistered, cbLog, lastModelEvent,
                   size, offset, writes, modelData>>
    /\ UNCHANGED <<mvars, evars>>

\* which bodies end with EXPECT_FALSE(monitor.wait(SHORT_TIMEOUT_PERIOD))
WaitsForCallbackMutAll(t) == TRUE
WaitsForCallback(t) == t \in LoadTests

\* EXPECT_TRUE(hidlReturn.isOk()); EXPECT_NE(0, ret);
ExpectStatusMutNoRetCheck ==
    /\ tpc = "expect"
    /\ failed' = (failed \/ ~hidlOk)
    /\ tpc' = IF test \in LoadTests THEN "wait" ELSE "end"
    /\ UNCHANGED <<test, halRet, hidlOk, cbRegistered, cbLog, lastModelEvent,
                   size, offset, writes, modelData>>
    /\ UNCHANGED <<mvars, evars>>
ExpectStatus ==
    /\ tpc = "expect"
    /\ failed' = (failed \/ ~hidlOk \/ halRet = 0)
    /\ tpc' = IF WaitsForCallback(test) THEN "wait" ELSE "end"
    /\ UNCHANGED <<test, halRet, hidlOk, cbRegistered, cbLog, lastModelEvent,
                   size, offset, writes, modelData>>
    /\ UNCHANGED <<mvars, evars>>

\* monitor.wait(SHORT_TIMEOUT_PERIOD) is entered
TestWait ==
    /\ tpc = "wait"
    /\ tpc' = "waiting"
    /\ WaitCall(TestThread, SHORT_TIMEOUT_PERIOD)
    /\ UNCHANGED <<test, halRet, hidlOk, failed, cbRegistered, cbLog, lastModelEvent,
                   size, offset, writes, modelData>>
    /\ UNCHANGED evars

\* EXPECT_FALSE(monitor.wait(...)) once wait has returned
ExpectNoCallback ==
    /\ tpc = "waiting"
    /\ pc[TestThread] = "done"
    /\ failed' = (failed \/ ret[TestThread] = "true")
    /\ tpc' = "end"
    /\ UNCHANGED <<test, halRet, hidlOk, cbRegistered, cbLog, lastModelEvent,
                   size, offset, writes, modelData>>
    /\ UNCHANGED <<mvars, evars>>

CallbackDeliverable == cbRegistered /\ tpc \notin {"end", "crashed"}

\* soundModelCallback / soundModelCallback_2_1 on a binder thread:
\* mParent.lastModelEvent(_2_0) = event; mParent.monitor.notify();
SoundModelCallback(n, name) ==
    /\ CallbackDeliverable
    /\ cbLog' = cbLog \cup {name}
    /\ lastModelEvent' = name
    /\ NotifyCall(n)
    /\ UNCHANGED <<test, tpc, halRet, hidlOk, failed, cbRegistered,
                   size, offset, writes, modelData>>
    /\ UNCHANGED evars

\* the recognition callbacks only log
RecognitionCallback(name) ==
    /\ CallbackDeliverable
    /\ name \notin cbLog
    /\ cbLog' = cbLog \cup {name}
    /\ UNCHANGED <<test, tpc, halRet, hidlOk, failed, cbRegistered, lastModelEvent,
                   size, offset, writes, modelData>>
    /\ UNCHANGED <<mvars, evars>>

Passed == tpc = "end" /\ ~failed

(***************************************************************************)
(* enum AudioFocusChange, @Backing(type="int")                             *)
(***************************************************************************)
NONE == 0
GAIN == 1
GAIN_TRANSIENT == 2
GAIN_TRANSIENT_MAY_DUCK == 3
GAIN_TRANSIENT_EXCLUSIVE == 4
LOSS == -1 * GAIN
LOSS_TRANSIENTMutCopy == -1 * GAIN
LOSS_TRANSIENT == -1 * GAIN_TRANSIENT
LOSS_TRANSIENT_CAN_DUCK == -1 * GAIN_TRANSIENT_MAY_DUCK

GainNames == {"GAIN", "GAIN_TRANSIENT", "GAIN_TRANSIENT_MAY_DUCK",
              "GAIN_TRANSIENT_EXCLUSIVE"}
LossNames == {"LOSS", "LOSS_TRANSIENT", "LOSS_TRANSIENT_CAN_DUCK"}
AudioFocusChange == {"NONE"} \cup GainNames \cup LossNames

Value(name) ==
    CASE name = "NONE" -> NONE
      [] name = "GAIN" -> GAIN
      [] name = "GAIN_TRANSIENT" -> GAIN_TRANSIENT
      [] name = "GAIN_TRANSIENT_MAY_DUCK" -> GAIN_TRANSIENT_MAY_DUCK
      [] name = "GAIN_TRANSIENT_EXCLUSIVE" -> GAIN_TRANSIENT_EXCLUSIVE
      [] name = "LOSS" -> LOSS
      [] name = "LOSS_TRANSIENT" -> LOSS_TRANSIENT
      [] name = "LOSS_TRANSIENT_CAN_DUCK" -> LOSS_TRANSIENT_CAN_DUCK

MemberValues == {Value(n) : n \in AudioFocusChange}

MaxProbe == 5

EnumInit ==
    /\ first = "NONE"
    /\ second = "NONE"
    /\ probe = 0

PickFirst(n) ==
    /\ first' = n
    /\ UNCHANGED <<second, probe, mvars, tvars>>

PickSecond(n) ==
    /\ second' = n
    /\ UNCHANGED <<first, probe, mvars, tvars>>

PickProbe(v) ==
    /\ probe' = v
    /\ UNCHANGED <<first, second, mvars, tvars>>

(***************************************************************************)
(* Specifications                                                          *)
(***************************************************************************)

\* Monitor used by any threads
Init ==
    /\ MonitorInit
    /\ TestVarsInit("LoadInvalidModelFail_2_1")
    /\ EnumInit

Next ==
    \/ \E w \in Waiters : \E t \in {0, SHORT_TIMEOUT_PERIOD} :
          WaitCall(w, t) /\ UNCHANGED <<tvars, evars>>
    \/ \E w \in Waiters : WaiterStep(w) /\ UNCHANGED <<tvars, evars>>
    \/ \E n \in Notifiers : NotifyCall(n) /\ UNCHANGED <<tvars, evars>>
    \/ \E n \in Notifiers : NotifierStep(n) /\ UNCHANGED <<tvars, evars>>

Spec == Init /\ [][Next]_vars

\* the same with the scheduling the platform gives: a runnable thread runs, the
\* clock advances, a timed wait ends at its deadline
Fairness ==
    /\ \A w \in Waiters :
         /\ WF_vars(WaitLock(w) /\ UNCHANGED <<tvars, evars>>)
         /\ WF_vars(WaitPred(w) /\ UNCHANGED <<tvars, evars>>)
         /\ WF_vars(Expire(w) /\ UNCHANGED <<tvars, evars>>)
         /\ WF_vars(Timeout(w) /\ UNCHANGED <<tvars, evars>>)
         /\ WF_vars(WaitRelock(w) /\ UNCHANGED <<tvars, evars>>)
         /\ WF_vars(WaitWoken(w) /\ UNCHANGED <<tvars, evars>>)
    /\ \A n \in Notifiers : WF_vars(NotifierStep(n) /\ UNCHANGED <<tvars, evars>>)

LiveSpec == Init /\ [][Next]_vars /\ Fairness

\* one test body against a black-box HAL
TestInit ==
    /\ MonitorInit
    /\ \E t \in Tests : TestVarsInit(t)
    /\ EnumInit

TestNext ==
    \/ SetUp
    \/ BuildModel
    \/ Allocate
    \/ FillStep
    \/ HalCall
    \/ HalReturn
    \/ ExpectStatus
    \/ TestWait
    \/ ExpectNoCallback
    \/ WaiterStep(TestThread) /\ UNCHANGED <<tvars, evars>>
    \/ \E n \in Notifiers : \E name \in ModelCallbacks : SoundModelCallback(n, name)
    \/ \E name \in OtherCallbacks : RecognitionCallback(name)
    \/ \E n \in Notifiers : NotifierStep(n) /\ UNCHANGED <<tvars, evars>>

TestSpec == TestInit /\ [][TestNext]_vars

\* the enumerators of AudioFocusChange
EnumNext ==
    \/ \E n \in AudioFocusChange : PickFirst(n)
    \/ \E n \in AudioFocusChange : PickSecond(n)
    \/ \E v \in (-MaxProbe)..MaxProbe : PickProbe(v)

EnumSpec == Init /\ [][EnumNext]_vars

(***************************************************************************)
(* Properties                                                              *)
(***************************************************************************)

\* a wait() call of w returns in this step
Returns(w) == pc[w] # "done" /\ pc'[w] = "done"

\* C1 as stated: a wait() call that found the counter positive when it was called,
\* or during which a notify() was applied before its deadline, returns true.
C1_AsStated ==
    \A w \in Waiters :
        (pc[w] = "done" /\ (posAtCall[w] \/ notified[w] = "early")) => ret[w] = "true"

\* C1: a wait() call that found the counter positive when it was called, or during
\* which a notify() was applied before its deadline, returns true unless another
\* wait() call took the count in the meantime; a call that returns true has
\* decreased the counter by exactly 1, and nothing else ever decreases the counter.
C1_WaitTrue ==
    /\ [](\A w \in Waiters :
            (pc[w] = "done" /\ (posAtCall[w] \/ notified[w] = "early") /\ ~stolen[w])
                => ret[w] = "true")
    /\ [][\A w \in Waiters :
            (Returns(w) /\ ret'[w] = "true") => mCount' = mCount - 1]_vars
    /\ [][mCount' < mCount =>
            /\ mCount' = mCount - 1
            /\ \E w \in Waiters : Returns(w) /\ ret'[w] = "true"]_vars

\* a wait() that found the counter positive returned true with no notify() during it
C1_Witness ==
    \E w \in Waiters :
        /\ pc[w] = "done" /\ ret[w] = "true"
        /\ posAtCall[w] /\ notified[w] = "no" /\ ~stolen[w]

\* C2 as stated: a wait() call that returned false saw no notify() applied between
\* the call and its check at the deadline.
C2_AsStated ==
    \A w \in Waiters : (pc[w] = "done" /\ ret[w] = "false") => notified[w] = "no"

\* C2: wait() returns false exactly when its deadline has passed and the counter it
\* reads under the lock is 0 (whatever notify() calls were applied since the call);
\* it then leaves the counter unchanged; it never returns false while the counter it
\* reads is greater than 0.
C2_WaitFalse ==
    /\ [](\A w \in Waiters : (pc[w] = "done" /\ ret[w] = "false") => expired[w])
    /\ [][\A w \in Waiters :
            Returns(w) =>
                /\ mMtx = w
                /\ (ret'[w] = "false") <=> (expired[w] /\ mCount = 0)
                /\ (ret'[w] = "false") => mCount' = mCount]_vars

\* a wait() that returned false although a notify() was applied before its deadline
C2_Witness ==
    \E w \in Waiters :
        /\ pc[w] = "done" /\ ret[w] = "false"
        /\ notified[w] = "early" /\ mCount = 0

\* C3 as stated: when notify() ran with threads blocked in wait() whose deadline
\* had not passed, one of those threads returns true (a thread that was inside
\* wait() at that moment without being blocked on mCv is let count as one of them).
C3_AsStated ==
    owedState \in {"open", "other"} => owedTo # {}

\* C3: notify() adds exactly 1 to the counter and wakes exactly one thread blocked
\* in wait() when there is one; the wait() calls that returned true never outnumber
\* the notify() calls; when notify() ran with unexpired blocked threads and all of
\* them have returned false, some other wait() call returned true.
C3_Notify ==
    /\ [](waitTrue <= notifyDone)
    /\ [](owedState = "open" => owedTo # {})
    /\ [][notifyDone' # notifyDone =>
            LET blocked == {w \in Waiters : pc[w] = "blocked"}
                woken == {w \in blocked : pc'[w] = "relock"}
            IN  /\ notifyDone' = notifyDone + 1
                /\ mCount' = mCount + 1
                /\ blocked # {} => Cardinality(woken) = 1
                /\ \A w \in Waiters \ woken : pc'[w] = pc[w]]_vars

\* every thread that was blocked at the notify() returned false: a call to wait()
\* made after the notify() took the count
C3_Witness ==
    owedState = "other" /\ owedTo = {} /\ waitTrue = 1 /\ notifyDone = 1

\* C7: every wait() call returns, whatever the calls to notify() and the other
\* waiters do.
C7_WaitReturns ==
    \A w \in Waiters : (pc[w] \notin {"idle", "done"}) ~> (pc[w] = "done")

\* a wait() returned false in a run without any notify()
C7_Witness ==
    \E w \in Waiters : pc[w] = "done" /\ ret[w] = "false" /\ notifyDone = 0 /\ ~posAtCall[w]

\* C9: the counter is never negative and is the number of completed notify()
\* calls minus the number of wait() calls that returned true, so the successful
\* waits never outnumber the notifies.
C9_Counter ==
    /\ mCount >= 0
    /\ mCount = notifyDone - waitTrue
    /\ waitTrue <= notifyDone

\* two notify() calls with no thread waiting, then two wait() calls returned true
C9_Witness ==
    /\ mCount = 0 /\ notifyDone = 2 /\ waitTrue = 2
    /\ \A w \in Waiters :
         pc[w] = "done" /\ ret[w] = "true" /\ posAtCall[w] /\ notified[w] = "no"

C5_AsStated ==
    Passed => (halRet # 0 /\ pc[TestThread] = "done" /\ ret[TestThread] = "false")

\* C5: every test that passes got a non-zero status over a successful transport;
\* the four load tests also waited and saw no callback, and
\* StartRecognitionNoModelFail_2_1 never calls wait().
C5_StatusChecked ==
    /\ Passed => (hidlOk /\ halRet # 0)
    /\ Passed => ((test \in LoadTests) <=>
                    (pc[TestThread] = "done" /\ ret[TestThread] = "false"))
    /\ test = "StartRecognitionNoModelFail_2_1" =>
           (pc[TestThread] = "idle" /\ waitCalls = 0)

\* StartRecognitionNoModelFail_2_1 passed although a sound-model callback followed
C5_Witness ==
    /\ test = "StartRecognitionNoModelFail_2_1" /\ Passed
    /\ notifyDone > 0

\* C6: at the load call of LoadGenericSoundModelFail_2_1 the model argument carries
\* the block filled with random bytes.
C6_RandomDataPassed ==
    (test = "LoadGenericSoundModelFail_2_1" /\ tpc = "incall") => modelData = "random"

\* C10: the fill loop writes only offsets 0..AllocSize-1, AllocSize writes in all.
C10_FillInBounds ==
    /\ writes \subseteq 0..(AllocSize - 1)
    /\ (test = "LoadGenericSoundModelFail_2_1" /\ tpc = "call") =>
           Cardinality(writes) = AllocSize

\* C8: NONE is 0, the gains are 1..4, each loss is the negation of its gain, the
\* eight enumerators have distinct values, an enumerator is a gain iff its value is
\* positive and a loss iff it is negative, and -GAIN_TRANSIENT_EXCLUSIVE is no
\* enumerator's value.
C8_AudioFocusChange ==
    /\ NONE = 0
    /\ {Value(n) : n \in GainNames} = 1..4
    /\ LOSS = -GAIN
    /\ LOSS_TRANSIENT = -GAIN_TRANSIENT
    /\ LOSS_TRANSIENT_CAN_DUCK = -GAIN_TRANSIENT_MAY_DUCK
    /\ first # second => Value(first) # Value(second)
    /\ first \in GainNames <=> Value(first) > 0
    /\ first \in LossNames <=> Value(first) < 0
    /\ probe \in MemberValues =>
           /\ probe > 0 <=> (\E n \in GainNames : Value(n) = probe)
           /\ probe < 0 <=> (\E n \in LossNames : Value(n) = probe)
    /\ probe = -GAIN_TRANSIENT_EXCLUSIVE => probe \notin MemberValues

\* the probe is -4 and the two enumerators are a loss and its gain
C8_Witness ==
    /\ first = "LOSS_TRANSIENT_CAN_DUCK"
    /\ second = "GAIN_TRANSIENT_MAY_DUCK"
    /\ Value(first) = -Value(second)
    /\ probe = -GAIN_TRANSIENT_EXCLUSIVE

=============================================================================
